---- MODULE Spec2Model ----
(***************************************************************************)
(* Model of the text editor of src/src/main.rs: the State struct, the      *)
(* State::update message handler, and the asynchronous tasks (dialogs,     *)
(* file reads, file writes, expiry timers) that update dispatches and      *)
(* whose results come back to update as messages.                          *)
(*                                                                         *)
(* Encodings.  Option<T>: None is {} and Some(x) is {x}.  io::Result:      *)
(* a record [ok, val].  PathBuf: the sequence of the path's components,    *)
(* <<"/", "tmp", "a.txt">> for /tmp/a.txt and << >> for the empty path.    *)
(* Document text: a sequence of characters.  Status strings: strings.      *)
(***************************************************************************)
EXTENDS Integers, Sequences, FiniteSets, Bags, TLC

VARIABLES
    content,    \* State.content: the text_editor::Content, [text, cursor]
    file_path,  \* State.file_path: Option<PathBuf>
    prev_path,  \* State.prev_path: PathBuf (the spec's SearchRoot)
    error,      \* State.error: VecDeque<String> (the spec's ErrorQueue)
    tasks,      \* bag of the dialog / read / write tasks still running
    timers,     \* the sleep tasks of add_error still running, by push number
    dirs,       \* file system: the selectable paths that are directories now
    pushed,     \* history: how many entries add_error has pushed so far
    ops,        \* history: how many Open / Save / SaveAs presses so far
    had_path,   \* history: file_path has been Some(..) at some time
    last        \* history: the step taken last

vars == <<content, file_path, prev_path, error, tasks, timers, dirs,
          pushed, ops, had_path, last>>

(***************************************************************************)
(* Bounds of the model.                                                    *)
(***************************************************************************)
MaxLen == 1     \* longest document text
MaxOps == 2     \* Open / Save / SaveAs presses in one run

\* what the keyboard can type
Chars == {"a"}

(***************************************************************************)
(* Option and io::Result.                                                  *)
(***************************************************************************)
None == {}
Some(x) == {x}
unwrap(o) == CHOOSE x \in o : TRUE
unwrap_or(o, d) == IF o = None THEN d ELSE unwrap(o)

Ok(v) == [ok |-> TRUE, val |-> v]
Err(e) == [ok |-> FALSE, val |-> e]

(***************************************************************************)
(* Paths and the file system.                                              *)
(***************************************************************************)
RootDir == "/"
\* a file name that is not valid UTF-8 (an OsString to_str() rejects)
NonUtf8Name == "\\xFF"

TmpDir == <<RootDir, "tmp">>
HomeDir == <<RootDir, "home">>
FileA == <<RootDir, "tmp", "a.txt">>
FileB == <<RootDir, "home", NonUtf8Name>>

\* what a native dialog can hand back
PickPaths == {FileA, FileB}
\* the selectable paths another process may turn into a directory
MutablePaths == {FileA}
\* directories that stay directories
FixedDirs == {<<RootDir>>, TmpDir, HomeDir}

\* std::env::current_dir().unwrap_or_default()
current_dir == HomeDir

\* Path::is_dir: asks the file system, now
is_dir(p) == p \in FixedDirs \cup dirs

\* Path::parent: None for the empty path and for the root
parent(p) ==
    IF p = << >> \/ p[Len(p)] = RootDir THEN None
    ELSE Some(SubSeq(p, 1, Len(p) - 1))

\* Path::file_name: the last component when it is a normal one
file_name(p) ==
    IF p = << >> \/ p[Len(p)] = RootDir THEN None
    ELSE Some(p[Len(p)])

\* OsString::into_string().ok() / OsStr::to_str of one component
os_to_str(n) == IF n = NonUtf8Name THEN None ELSE Some(n)

RECURSIVE join(_)
join(p) ==
    IF p = << >> THEN ""
    ELSE IF Len(p) = 1 THEN p[1]
    ELSE IF p[1] = RootDir THEN RootDir \o join(Tail(p))
    ELSE p[1] \o "/" \o join(Tail(p))

\* Path::to_str: None unless every component is valid UTF-8
to_str(p) ==
    IF \E i \in 1..Len(p) : os_to_str(p[i]) = None THEN None
    ELSE Some(join(p))

\* the directory rule of set_file_path and file_select_win_builder
dir_of(p, default) ==
    IF is_dir(p) THEN p ELSE unwrap_or(parent(p), default)

file_name_opt(path) ==
    IF path = None THEN None
    ELSE IF file_name(unwrap(path)) = None THEN None
    ELSE os_to_str(unwrap(file_name(unwrap(path))))

(***************************************************************************)
(* text_editor::Content and the edit actions of the editor widget.         *)
(***************************************************************************)
\* text_editor::Content::new()
Content_new == [text |-> << >>, cursor |-> 0]
\* text_editor::Content::with_text(text)
Content_with_text(t) == [text |-> t, cursor |-> 0]
\* text_editor::Content::text()
Content_text(c) == c.text

\* the text_editor::Action values the widget's on_action hands to Message::Edit
EditActions == {<<"Insert", ch>> : ch \in Chars} \cup {<<"Backspace", "">>}

\* text_editor::Content::perform(action)
Content_perform(c, a) ==
    LET n == Len(c.text)
        k == c.cursor
    IN  CASE a[1] = "Insert" ->
                [text |-> SubSeq(c.text, 1, k) \o <<a[2]>> \o SubSeq(c.text, k + 1, n),
                 cursor |-> k + 1]
          [] a[1] = "Backspace" ->
                IF k = 0 THEN c
                ELSE [text |-> SubSeq(c.text, 1, k - 1) \o SubSeq(c.text, k + 1, n),
                      cursor |-> k - 1]
          [] a[1] = "Left" -> [c EXCEPT !.cursor = IF k = 0 THEN 0 ELSE k - 1]
          [] a[1] = "Right" -> [c EXCEPT !.cursor = IF k = n THEN n ELSE k + 1]

(***************************************************************************)
(* The Message enum.                                                       *)
(***************************************************************************)
Edit(action) == [type |-> "Edit", action |-> action]
FileOpened(result, path) == [type |-> "FileOpened", result |-> result, path |-> path]
OpenFileDialog == [type |-> "OpenFileDialog"]
OpenFile(handle) == [type |-> "OpenFile", handle |-> handle]
RemoveError == [type |-> "RemoveError"]
New == [type |-> "New"]
Save == [type |-> "Save"]
SaveAs == [type |-> "SaveAs"]
SavedFile(data) == [type |-> "SavedFile", data |-> data]

(***************************************************************************)
(* Tasks: what Task::perform is given.  A task is the state of its future: *)
(* op names the await it is suspended at.  from is history: the message    *)
(* whose handler started the task (the runtime fills it in).               *)
(***************************************************************************)
Task(op, path, text, name) ==
    [op |-> op, path |-> path, text |-> text, name |-> name, from |-> ""]

\* Task::none()
Task_none == Task("none", << >>, << >>, None)
\* tokio::time::sleep(Duration::from_secs(4)), then Message::RemoveError
Task_sleep == Task("sleep", << >>, << >>, None)

\* file_select_win_builder: the directory and the file name the dialog is
\* given (the title does not act on the state)
file_select_win_builder(path, name) ==
    [directory |-> dir_of(path, current_dir), file_name |-> name]

\* file_select_win_builder("Open file ...", path, name).pick_file(), awaited
pick_file(path, name) ==
    Task("pick_file", file_select_win_builder(path, name).directory, << >>,
         file_select_win_builder(path, name).file_name)

\* load_file(path), suspended at tokio::fs::read_to_string
load_file(path) == Task("read", path, << >>, None)

\* save_file_as(file_path, text, file_name), suspended at the save dialog
save_file_as(path, text, name) == Task("save_dialog", path, text, name)

\* mutant: save_file always asks for the destination
save_file_always_asks(path, root_search_path, text) ==
    save_file_as(root_search_path, text, None)

\* mutant: save_file without a path writes to the search root
save_file_never_asks(path, root_search_path, text) ==
    IF path # None
    THEN Task("write", unwrap(path), text, None)
    ELSE Task("write", root_search_path, text, None)

\* save_file(file_path, root_search_path, text): suspended at
\* tokio::fs::write when there is a path, and in save_file_as otherwise
save_file(path, root_search_path, text) ==
    IF path # None
    THEN Task("write", unwrap(path), text, None)
    ELSE save_file_as(root_search_path, text, None)

(***************************************************************************)
(* State and State::update.  self is the State the method is called on;    *)
(* update returns the State after the call and the Task it hands back.     *)
(***************************************************************************)
self == [content |-> content, file_path |-> file_path,
         prev_path |-> prev_path, error |-> error]

\* mutant: the directory test of set_file_path left out
set_file_path_no_is_dir(st, path) ==
    [st EXCEPT
        !.prev_path = IF path = None THEN st.prev_path
                      ELSE unwrap_or(parent(unwrap(path)), current_dir),
        !.file_path = path]

set_file_path(st, path) ==
    [st EXCEPT
        !.prev_path = IF path = None THEN st.prev_path
                      ELSE dir_of(unwrap(path), current_dir),
        !.file_path = path]

\* mutant: push_front in place of push_back
add_error_push_front(st, text) ==
    [state |-> [st EXCEPT !.error = <<text>> \o st.error],
     task |-> Task_sleep]

\* mutant: the entry is pushed and no sleep is started
add_error_no_timer(st, text) ==
    [state |-> [st EXCEPT !.error = Append(st.error, text)],
     task |-> Task_none]

add_error(st, text) ==
    [state |-> [st EXCEPT !.error = Append(st.error, text)],
     task |-> Task_sleep]

\* mutant: pop_back in place of pop_front
pop_back(q) == IF q = << >> THEN << >> ELSE SubSeq(q, 1, Len(q) - 1)

\* VecDeque::pop_front, the value dropped
pop_front(q) == IF q = << >> THEN << >> ELSE Tail(q)

\* mutant: to_string_lossy in place of to_str().unwrap_or("file")
saved_text_lossy(path) == join(path) \o " saved!"

\* format!("{} saved!", path.to_str().unwrap_or("file"))
saved_text(path) == unwrap_or(to_str(path), "file") \o " saved!"

\* mutant: the action is not performed
on_Edit_dropped(st, action) ==
    [state |-> st, task |-> Task_none]

on_Edit(st, action) ==
    [state |-> [st EXCEPT !.content = Content_perform(st.content, action)],
     task |-> Task_none]

on_FileOpened(st, result, path) ==
    IF result.ok
    THEN [state |-> set_file_path(
                        [st EXCEPT !.content = Content_with_text(result.val)],
                        Some(path)),
          task |-> Task_none]
    ELSE add_error(st, "Could not open file: " \o result.val)

on_OpenFileDialog(st) ==
    [state |-> st,
     task |-> pick_file(st.prev_path, file_name_opt(st.file_path))]

\* mutant: a closed dialog is reported like a cancelled save
on_OpenFile_reports_cancel(st, file_handle_opt) ==
    IF file_handle_opt # None
    THEN [state |-> st, task |-> load_file(unwrap(file_handle_opt))]
    ELSE [state |-> [st EXCEPT !.error = Append(st.error, "No file opened.")],
          task |-> Task_sleep]

on_OpenFile(st, file_handle_opt) ==
    IF file_handle_opt # None
    THEN [state |-> st, task |-> load_file(unwrap(file_handle_opt))]
    ELSE [state |-> st, task |-> Task_none]

\* mutant: the entry is left in the queue
on_RemoveError_keeps(st) ==
    [state |-> st, task |-> Task_none]

\* mutant: clear() in place of pop_front()
on_RemoveError_clears(st) ==
    [state |-> [st EXCEPT !.error = << >>], task |-> Task_none]

on_RemoveError(st) ==
    [state |-> [st EXCEPT !.error = pop_front(st.error)],
     task |-> Task_none]

\* mutant: New resets the whole State but the queue
on_New_resets_prev_path(st) ==
    [state |-> [st EXCEPT !.content = Content_new, !.file_path = None,
                          !.prev_path = << >>],
     task |-> Task_none]

on_New(st) ==
    [state |-> set_file_path([st EXCEPT !.content = Content_new], None),
     task |-> Task_none]

\* mutant: the text is not taken from the content
on_Save_no_snapshot(st) ==
    [state |-> st,
     task |-> save_file(st.file_path, st.prev_path, Content_text(Content_new))]

on_Save(st) ==
    [state |-> st,
     task |-> save_file(st.file_path, st.prev_path, Content_text(st.content))]

\* mutant: SaveAs goes through save_file, which writes when a path is set
on_SaveAs_through_save_file(st) ==
    [state |-> st,
     task |-> save_file(st.file_path, st.prev_path, Content_text(st.content))]

on_SaveAs(st) ==
    [state |-> st,
     task |-> save_file_as(st.prev_path, Content_text(st.content),
                           file_name_opt(st.file_path))]

\* mutant: a cancelled save dialog is as silent as a cancelled open dialog
on_SavedFile_silent_cancel(st, data) ==
    IF data = None
    THEN [state |-> st, task |-> Task_none]
    ELSE IF unwrap(data).ok
    THEN add_error(set_file_path(st, Some(unwrap(data).val)),
                   saved_text(unwrap(data).val))
    ELSE add_error(st, "Could not save file: " \o unwrap(data).val)

\* mutant: a failed write is reported with the text of a failed read
on_SavedFile_open_prefix(st, data) ==
    IF data = None
    THEN add_error(st, "File save aborted. File not saved.")
    ELSE IF unwrap(data).ok
    THEN add_error(set_file_path(st, Some(unwrap(data).val)),
                   saved_text(unwrap(data).val))
    ELSE add_error(st, "Could not open file: " \o unwrap(data).val)

on_SavedFile(st, data) ==
    IF data = None
    THEN add_error(st, "File save aborted. File not saved.")
    ELSE IF unwrap(data).ok
    THEN add_error(set_file_path(st, Some(unwrap(data).val)),
                   saved_text(unwrap(data).val))
    ELSE add_error(st, "Could not save file: " \o unwrap(data).val)

update(st, m) ==
    CASE m.type = "Edit" -> on_Edit(st, m.action)
      [] m.type = "FileOpened" -> on_FileOpened(st, m.result, m.path)
      [] m.type = "OpenFileDialog" -> on_OpenFileDialog(st)
      [] m.type = "OpenFile" -> on_OpenFile(st, m.handle)
      [] m.type = "RemoveError" -> on_RemoveError(st)
      [] m.type = "New" -> on_New(st)
      [] m.type = "Save" -> on_Save(st)
      [] m.type = "SaveAs" -> on_SaveAs(st)
      [] m.type = "SavedFile" -> on_SavedFile(st, m.data)

(***************************************************************************)
(* State::view: the texts it hands to the widgets.                         *)
(***************************************************************************)
\* mutant: the welcome text only until a path was set once
placeholder_once_welcomed(st) ==
    IF st.prev_path # << >> THEN "Type here ..."
    ELSE "Welcome! Open a file or start typing here ..."

\* view: the placeholder of the text_editor
placeholder(st) ==
    IF st.file_path # None THEN "Type here ..."
    ELSE "Welcome! Open a file or start typing here ..."

\* mutant: back() in place of front()
view_bottom_info_back(st) ==
    LET path == IF st.file_path = None
                THEN "No file yet, please save or open file :)"
                ELSE unwrap_or(to_str(unwrap(st.file_path)), "Can't display path :(")
    IN  IF st.error # << >> THEN st.error[Len(st.error)] ELSE path

\* view_bottom_info: the text of the status line (beside the cursor position)
view_bottom_info(st) ==
    LET path == IF st.file_path = None
                THEN "No file yet, please save or open file :)"
                ELSE unwrap_or(to_str(unwrap(st.file_path)), "Can't display path :(")
    IN  IF st.error # << >> THEN Head(st.error) ELSE path

(***************************************************************************)
(* The environment: what the file system and the user can answer.  A task  *)
(* that ends hands its message to update in the same step; the file system *)
(* a read or write met may have changed by then, so the results do not     *)
(* depend on dirs, which is the file system as update sees it.             *)
(***************************************************************************)
\* texts a read can return
FileTexts == {<<"b">>}
\* the Display text of the io::Error of a failed read or write
IoErrors == {"permission denied"}

\* tokio::fs::read_to_string(path): the results the file system allows
read_results(path) == {Ok(t) : t \in FileTexts} \cup {Err(e) : e \in IoErrors}

\* tokio::fs::write(path, text).map(|_| path_buf): the results it allows
write_results(path) == {Ok(path)} \cup {Err(e) : e \in IoErrors}

\* what a dialog can return: nothing, or a path
dialog_results == {None} \cup {Some(p) : p \in PickPaths}

(***************************************************************************)
(* The runtime: iced::application(.., State::update, State::view) calls    *)
(* update with one message at a time and runs the Task it returns.         *)
(***************************************************************************)
\* by: "user" (a widget), "task" (a finished dialog, read or write),
\* "timer" (a finished sleep), "io" (a task going on, no message), "fs";
\* msg: the message update was called with; task: the task that sent it;
\* n: the push number of the timer that sent it
Step(by, msg, task, n) == [by |-> by, msg |-> msg, task |-> task, n |-> n]

Init ==
    /\ content = Content_new
    /\ file_path = None
    /\ prev_path = << >>
    /\ error = << >>
    /\ tasks = EmptyBag
    /\ timers = {}
    /\ dirs = {}
    /\ pushed = 0
    /\ ops = 0
    /\ had_path = FALSE
    /\ last = Step("init", New, Task_none, 0)

One(t) == SetToBag({t})

\* one call of State::update with message m, sent by task t; running and
\* waiting are the tasks and timers left once t has ended
Run(by, m, t, n, running, waiting) ==
    LET r == update(self, m) IN
    /\ content' = r.state.content
    /\ file_path' = r.state.file_path
    /\ prev_path' = r.state.prev_path
    /\ error' = r.state.error
    /\ tasks' = IF r.task.op \in {"none", "sleep"} THEN running
                ELSE running (+) One([r.task EXCEPT !.from = m.type])
    /\ timers' = IF r.task.op = "sleep" THEN waiting \cup {pushed + 1} ELSE waiting
    /\ pushed' = IF r.task.op = "sleep" THEN pushed + 1 ELSE pushed
    /\ had_path' = (had_path \/ r.state.file_path # None)
    /\ last' = Step(by, m, t, n)
    /\ UNCHANGED dirs

\* text_editor(..).on_action(Message::Edit)
UserEdit ==
    \E a \in EditActions :
        /\ a[1] = "Insert" => Len(content.text) < MaxLen
        /\ Run("user", Edit(a), Task_none, 0, tasks, timers)
        /\ UNCHANGED ops

\* view_menu: new_button
PressNew ==
    /\ Run("user", New, Task_none, 0, tasks, timers)
    /\ UNCHANGED ops

\* view_menu: open_button
PressOpen ==
    /\ ops < MaxOps
    /\ ops' = ops + 1
    /\ Run("user", OpenFileDialog, Task_none, 0, tasks, timers)

\* view_menu: save_button
PressSave ==
    /\ ops < MaxOps
    /\ ops' = ops + 1
    /\ Run("user", Save, Task_none, 0, tasks, timers)

\* a sleep task of add_error ends: Message::RemoveError
TimerFires ==
    \E n \in timers :
        /\ Run("timer", RemoveError, Task_sleep, n, tasks, timers \ {n})
        /\ UNCHANGED ops

\* the open dialog closes: Message::OpenFile(handle)
PickFile ==
    \E t \in BagToSet(tasks) : \E h \in dialog_results :
        /\ t.op = "pick_file"
        /\ Run("task", OpenFile(h), t, 0, tasks (-) One(t), timers)
        /\ UNCHANGED ops

\* load_file: read_to_string returns, Message::FileOpened(res, buf)
ReadFile ==
    \E t \in BagToSet(tasks) : \E res \in read_results(t.path) :
        /\ t.op = "read"
        /\ Run("task", FileOpened(res, t.path), t, 0, tasks (-) One(t), timers)
        /\ UNCHANGED ops

\* save_file_as: the save dialog closes without a path, the task ends
\* with None: Message::SavedFile(None)
SaveDialogCancelled ==
    \E t \in BagToSet(tasks) :
        /\ t.op = "save_dialog"
        /\ Run("task", SavedFile(None), t, 0, tasks (-) One(t), timers)
        /\ UNCHANGED ops

\* save_file_as: the save dialog closes with a path, the task goes on in
\* save_file(Some(path), file_path, text)
SaveDialogChosen ==
    \E t \in BagToSet(tasks) : \E p \in PickPaths :
        /\ t.op = "save_dialog"
        /\ tasks' = (tasks (-) One(t))
                        (+) One([save_file(Some(p), t.path, t.text)
                                    EXCEPT !.from = t.from])
        /\ last' = Step("io", SavedFile(None), t, 0)
        /\ UNCHANGED <<content, file_path, prev_path, error, timers, dirs,
                       pushed, ops, had_path>>

\* save_file: tokio::fs::write returns, Message::SavedFile(Some(result))
WriteFile ==
    \E t \in BagToSet(tasks) : \E res \in write_results(t.path) :
        /\ t.op = "write"
        /\ Run("task", SavedFile(Some(res)), t, 0, tasks (-) One(t), timers)
        /\ UNCHANGED ops

\* another process turns a selectable path into a directory, or back
FsChange ==
    \E p \in MutablePaths :
        /\ dirs' = IF p \in dirs THEN dirs \ {p} ELSE dirs \cup {p}
        /\ last' = Step("fs", New, Task_none, 0)
        /\ UNCHANGED <<content, file_path, prev_path, error, tasks, timers,
                       pushed, ops, had_path>>

Next ==
    \/ UserEdit
    \/ PressNew
    \/ PressOpen
    \/ PressSave
    \/ TimerFires
    \/ PickFile
    \/ ReadFile
    \/ SaveDialogCancelled
    \/ SaveDialogChosen
    \/ WriteFile
    \/ FsChange

\* the program as built: the menu has the New, Open and Save buttons
Spec == Init /\ [][Next]_vars

\* the program as built, where every sleep of add_error ends: the runtime
\* goes on polling a timer that is due
SpecFair == Spec /\ WF_vars(TimerFires)

\* Message::SaveAs, which no widget of view_menu sends
PressSaveAs ==
    /\ ops < MaxOps
    /\ ops' = ops + 1
    /\ Run("user", SaveAs, Task_none, 0, tasks, timers)

\* Message::RemoveError sent to dismiss the front entry, not by a timer
Dismiss ==
    /\ Run("user", RemoveError, Task_none, 0, tasks, timers)
    /\ UNCHANGED ops

NextSaveAs ==
    \/ Next
    \/ PressSaveAs

\* the program with the save-as button of view_menu put back
SpecSaveAs == Init /\ [][NextSaveAs]_vars

NextDismiss ==
    \/ Next
    \/ Dismiss

\* the program with an explicit dismissal of the status line
SpecDismiss == Init /\ [][NextDismiss]_vars

(***************************************************************************)
(* Reading a step: which message update handled, what the step started.    *)
(***************************************************************************)
\* the step is a call of State::update with a message of this type
Handled(type) ==
    /\ last'.by \in {"user", "task", "timer"}
    /\ last'.msg.type = type

\* the task as the runtime holds it once the handler of from started it
Started(task, from) == [task EXCEPT !.from = from]

\* the tasks and timers left when the sender of the message has ended
TasksLeft == IF last'.by = "task" THEN tasks (-) One(last'.task) ELSE tasks
TimersLeft == IF last'.by = "timer" THEN timers \ {last'.n} ELSE timers

\* the step starts no task and no timer
NothingStarted ==
    /\ tasks' = TasksLeft
    /\ timers' = TimersLeft
    /\ pushed' = pushed

\* the step starts one expiry timer, a new one, and nothing else
OneTimerStarted ==
    /\ tasks' = TasksLeft
    /\ pushed' = pushed + 1
    /\ pushed' \notin TimersLeft
    /\ timers' = TimersLeft \cup {pushed'}

\* the step starts this task and nothing else
OneTaskStarted(task) ==
    /\ tasks' = TasksLeft (+) One(task)
    /\ timers' = TimersLeft
    /\ pushed' = pushed

\* the SearchRoot a load or save of path p leaves
SearchRootOf(p) == IF is_dir(p) THEN p ELSE unwrap(parent(p))

(***************************************************************************)
(* C1.  Processing FileLoaded(Ok(T), P) (Message::FileOpened) yields       *)
(* Document.text = T, FilePath = Some(P) and SearchRoot = P when P is a    *)
(* directory, the parent directory of P otherwise; the ErrorQueue is       *)
(* unchanged and no async operation is dispatched.                         *)
(***************************************************************************)
C1_FileLoadedOk ==
    [][(Handled("FileOpened") /\ last'.msg.result.ok) =>
            /\ Content_text(content') = last'.msg.result.val
            /\ file_path' = Some(last'.msg.path)
            /\ prev_path' = SearchRootOf(last'.msg.path)
            /\ error' = error
            /\ NothingStarted]_vars

\* /tmp/a.txt, turned into a directory since it was read, has been loaded
\* while the queue held an entry
C1_Witness ==
    /\ last.by = "task"
    /\ last.msg.type = "FileOpened"
    /\ last.msg.result.ok
    /\ last.msg.path = FileA
    /\ FileA \in dirs
    /\ prev_path = FileA
    /\ file_path = Some(FileA)
    /\ content.text = <<"b">>
    /\ error # << >>

(***************************************************************************)
(* C2.  Processing FileLoaded(Err(E), path) appends exactly                *)
(* "Could not open file: E" to the back of the ErrorQueue, leaves          *)
(* Document, FilePath and SearchRoot unchanged and dispatches one expiry   *)
(* timer.                                                                  *)
(***************************************************************************)
C2_FileLoadedErr ==
    [][(Handled("FileOpened") /\ ~last'.msg.result.ok) =>
            /\ error' = Append(error, "Could not open file: " \o last'.msg.result.val)
            /\ (error = << >> => Head(error') = "Could not open file: " \o last'.msg.result.val)
            /\ content' = content
            /\ file_path' = file_path
            /\ prev_path' = prev_path
            /\ OneTimerStarted]_vars

\* a failed read has put its entry behind an entry of another kind
C2_Witness ==
    /\ last.by = "task"
    /\ last.msg.type = "FileOpened"
    /\ ~last.msg.result.ok
    /\ Len(error) = 2
    /\ error[1] # error[2]
    /\ error[2] = "Could not open file: permission denied"
    /\ Cardinality(timers) = 2

(***************************************************************************)
(* C3.  When Save is processed with FilePath = Some(P), the task it        *)
(* dispatches writes exactly the Document's text to P, never opens a save  *)
(* dialog, and delivers SavedFile(Some(result)), never SavedFile(None).    *)
(***************************************************************************)
C3_SaveWithPath ==
    [][/\ (Handled("Save") /\ file_path # None) =>
            OneTaskStarted(Started(Task("write", unwrap(file_path),
                                        Content_text(content), None), "Save"))
       \* a task suspended at the write ends there, with Some(result),
       \* and the path of an Ok is the path it wrote to
       /\ (last'.by \in {"task", "io"} /\ last'.task.op = "write") =>
            /\ Handled("SavedFile")
            /\ last'.msg.data # None
            /\ unwrap(last'.msg.data).ok => unwrap(last'.msg.data).val = last'.task.path
       \* a save dialog is opened by Save without a path only
       /\ (\E t \in BagToSet(tasks') :
                t.op = "save_dialog" /\ CopiesIn(t, tasks') > CopiesIn(t, tasks)) =>
            (Handled("Save") /\ file_path = None)]_vars

\* Save has been pressed on an edited document that has a path
C3_Witness ==
    /\ last.by = "user"
    /\ last.msg.type = "Save"
    /\ file_path = Some(FileB)
    /\ content.text = <<"a">>
    /\ BagIn(Started(Task("write", FileB, <<"a">>, None), "Save"), tasks)

(***************************************************************************)
(* C4.  When Save is processed with FilePath = None, what follows is what  *)
(* follows SaveAs in that state: a save dialog seeded with SearchRoot is   *)
(* requested first, no write happens before the dialog returns a path,     *)
(* and none at all if the dialog is cancelled.                             *)
(***************************************************************************)
C4_SaveWithoutPath ==
    [][/\ (Handled("Save") /\ file_path = None) =>
            /\ on_Save(self) = on_SaveAs(self)
            /\ OneTaskStarted(Started(Task("save_dialog", prev_path,
                                           Content_text(content), None), "Save"))
       /\ (Handled("SaveAs") /\ file_path = None) =>
            OneTaskStarted(Started(Task("save_dialog", prev_path,
                                        Content_text(content), None), "SaveAs"))
       \* the dialog closes without a path: SavedFile(None), no write task
       /\ (last'.by = "task" /\ last'.task.op = "save_dialog") =>
            /\ last'.msg = SavedFile(None)
            /\ \A t \in BagToSet(tasks') :
                    t.op = "write" => CopiesIn(t, tasks') = CopiesIn(t, tasks)
       \* a write of a task that asks comes after its dialog gave the path
       /\ (\E t \in BagToSet(tasks') :
                /\ t.op = "write"
                /\ t.from \in {"Save", "SaveAs"}
                /\ CopiesIn(t, tasks') > CopiesIn(t, tasks)) =>
            \/ Handled("Save") /\ file_path # None
            \/ /\ last'.by = "io"
               /\ last'.task.op = "save_dialog"
               /\ \E p \in PickPaths :
                    tasks' = (tasks (-) One(last'.task))
                        (+) One(Started(Task("write", p, last'.task.text, None),
                                        last'.task.from))]_vars

\* Save has been pressed on an edited document without a path, after a
\* load or save had set the SearchRoot
C4_Witness ==
    /\ last.by = "user"
    /\ last.msg.type = "Save"
    /\ file_path = None
    /\ prev_path = TmpDir
    /\ content.text = <<"a">>
    /\ BagIn(Started(Task("save_dialog", TmpDir, <<"a">>, None), "Save"), tasks)

(***************************************************************************)
(* C5.  Processing SavedFile(Some(Ok(P))) sets FilePath = Some(P), sets    *)
(* SearchRoot to P when P is a directory and to P's parent directory       *)
(* otherwise, appends "P saved!" to the back of the ErrorQueue with an     *)
(* expiry timer, and leaves Document unchanged.                            *)
(***************************************************************************)
\* the handler's effect, the pushed text left open
SavedOkEffect(text) ==
    /\ file_path' = Some(unwrap(last'.msg.data).val)
    /\ prev_path' = SearchRootOf(unwrap(last'.msg.data).val)
    /\ error' = Append(error, text)
    /\ content' = content
    /\ OneTimerStarted

SavedOk ==
    /\ Handled("SavedFile")
    /\ last'.msg.data # None
    /\ unwrap(last'.msg.data).ok

\* C5 as claimed: the entry is the path, whatever the path, then " saved!"
C5_AsClaimed ==
    [][SavedOk => SavedOkEffect(join(unwrap(last'.msg.data).val) \o " saved!")]_vars

\* C5 as amended: the entry is "P saved!" when P is valid UTF-8 and
\* "file saved!" when it is not
C5_SavedOk ==
    [][SavedOk =>
        LET P == unwrap(last'.msg.data).val IN
        SavedOkEffect(IF to_str(P) # None THEN unwrap(to_str(P)) \o " saved!"
                      ELSE "file saved!")]_vars

\* a write to /tmp/a.txt has succeeded while another path was the FilePath
\* and the queue held an entry
C5_Witness ==
    /\ last.by = "task"
    /\ last.msg.type = "SavedFile"
    /\ last.msg.data = Some(Ok(FileA))
    /\ file_path = Some(FileA)
    /\ prev_path = TmpDir
    /\ Len(error) = 2
    /\ error[2] = "/tmp/a.txt saved!"

\* a write to the path that is not valid UTF-8 has succeeded
C5_WitnessNonUtf8 ==
    /\ last.by = "task"
    /\ last.msg.type = "SavedFile"
    /\ last.msg.data = Some(Ok(FileB))
    /\ file_path = Some(FileB)
    /\ prev_path = HomeDir
    /\ error # << >>
    /\ error[Len(error)] = "file saved!"

(***************************************************************************)
(* C6.  After SaveAs completes successfully with destination D, FilePath   *)
(* is Some(D) whatever it was before, and a later Save, with no New or     *)
(* load in between, writes to D directly without any dialog; SaveAs itself *)
(* always opens the dialog, also when FilePath is set.  (D is the          *)
(* destination of the latest successful save: FilePath changes only when   *)
(* a New, a successful load or a successful save is processed.)            *)
(***************************************************************************)
C6_SaveAsAdopts ==
    [][/\ Handled("SaveAs") =>
            OneTaskStarted(Started(Task("save_dialog", prev_path,
                                        Content_text(content),
                                        file_name_opt(file_path)), "SaveAs"))
       /\ (SavedOk /\ last'.task.from = "SaveAs") =>
            file_path' = Some(unwrap(last'.msg.data).val)
       /\ file_path' # file_path =>
            \/ Handled("New")
            \/ Handled("FileOpened") /\ last'.msg.result.ok
            \/ SavedOk
       /\ (Handled("Save") /\ file_path # None) =>
            /\ tasks' = tasks (+) One(Started(Task("write", unwrap(file_path),
                                                   Content_text(content), None),
                                              "Save"))
            /\ file_path' = file_path]_vars

\* a SaveAs started when FilePath was set has written to the path the
\* dialog returned, and that path is the FilePath now
C6_Witness ==
    /\ last.by = "task"
    /\ last.task.from = "SaveAs"
    /\ last.task.op = "write"
    /\ last.msg = SavedFile(Some(Ok(FileB)))
    /\ file_path = Some(FileB)
    /\ ops = 2

(***************************************************************************)
(* C7.  At any time at most one file operation (open dialog, save dialog,  *)
(* file read or file write) is outstanding.                                *)
(***************************************************************************)
C7_OneFileOperation == BagCardinality(tasks) <= 1

(***************************************************************************)
(* C8.  Processing New yields an empty Document and FilePath = None while  *)
(* SearchRoot and the ErrorQueue are unchanged and no async operation is   *)
(* dispatched.                                                             *)
(***************************************************************************)
C8_New ==
    [][Handled("New") =>
            /\ Content_text(content') = << >>
            /\ content' = Content_new
            /\ file_path' = None
            /\ prev_path' = prev_path
            /\ error' = error
            /\ NothingStarted]_vars

\* New has been pressed after a file of /tmp was loaded or saved, with an
\* entry in the queue
C8_Witness ==
    /\ last.by = "user"
    /\ last.msg.type = "New"
    /\ content = Content_new
    /\ file_path = None
    /\ prev_path = TmpDir
    /\ error # << >>

(***************************************************************************)
(* C9.  Processing SavedFile(None), the save dialog cancelled, appends     *)
(* exactly "File save aborted. File not saved." to the back of the         *)
(* ErrorQueue, leaves Document, FilePath and SearchRoot unchanged and      *)
(* dispatches one expiry timer.                                            *)
(***************************************************************************)
C9_SaveCancelled ==
    [][(Handled("SavedFile") /\ last'.msg.data = None) =>
            /\ error' = Append(error, "File save aborted. File not saved.")
            /\ (error = << >> => Head(error') = "File save aborted. File not saved.")
            /\ content' = content
            /\ file_path' = file_path
            /\ prev_path' = prev_path
            /\ OneTimerStarted]_vars

\* a save dialog has been cancelled while the queue held another entry
C9_Witness ==
    /\ last.by = "task"
    /\ last.task.op = "save_dialog"
    /\ last.msg = SavedFile(None)
    /\ Len(error) = 2
    /\ error[1] # error[2]
    /\ error[2] = "File save aborted. File not saved."

(***************************************************************************)
(* C10.  DismissError (Message::RemoveError) removes exactly one entry,    *)
(* the front one, when the ErrorQueue is non-empty and leaves the queue    *)
(* empty when it is empty; Document, FilePath and SearchRoot are           *)
(* unchanged, and the queue is never longer than the number of messages    *)
(* pushed so far.                                                          *)
(***************************************************************************)
C10_RemoveError ==
    /\ Len(error) <= pushed
    /\ [][/\ Len(error') <= pushed'
          /\ Handled("RemoveError") =>
                /\ error # << >> =>
                        /\ Len(error') = Len(error) - 1
                        /\ \A i \in 1..Len(error') : error'[i] = error[i + 1]
                /\ error = << >> => error' = << >>
                /\ content' = content
                /\ file_path' = file_path
                /\ prev_path' = prev_path
                /\ NothingStarted]_vars

\* a timer or a dismissal has removed the front of two entries
C10_Witness ==
    /\ last.msg.type = "RemoveError"
    /\ last.by \in {"user", "timer"}
    /\ pushed = 2
    /\ Len(error) = 1
    /\ error[1] = "File save aborted. File not saved."

\* RemoveError has been processed on a queue nothing was ever pushed to
C10_WitnessEmpty ==
    /\ last.by = "user"
    /\ last.msg.type = "RemoveError"
    /\ pushed = 0
    /\ error = << >>

(***************************************************************************)
(* C11.  The ErrorQueue behaves as a FIFO: every step leaves it unchanged, *)
(* appends one entry at the back, or removes the single front entry; the   *)
(* order of the remaining entries never changes and no entry is removed    *)
(* from another position.                                                  *)
(***************************************************************************)
C11_Fifo ==
    [][\/ error' = error
       \/ /\ Len(error') = Len(error) + 1
          /\ \A i \in 1..Len(error) : error'[i] = error[i]
       \/ /\ error # << >>
          /\ Len(error') = Len(error) - 1
          /\ \A i \in 1..Len(error') : error'[i] = error[i + 1]]_vars

\* a timer has removed the front of two different entries: the one pushed
\* last is left
C11_Witness ==
    /\ last.by = "timer"
    /\ last.msg.type = "RemoveError"
    /\ pushed = 2
    /\ error = <<"Could not open file: permission denied">>
    /\ Cardinality(timers) = 1

(***************************************************************************)
(* C12.  The editor shows the welcome placeholder exactly when no document *)
(* has ever been associated with a path during the session, and the        *)
(* generic prompt once one has been, also after a later New.               *)
(***************************************************************************)
Welcome == "Welcome! Open a file or start typing here ..."
Generic == "Type here ..."

\* C12 as claimed: the welcome text as long as no path was ever set
C12_AsClaimed ==
    /\ had_path => placeholder(self) = Generic
    /\ ~had_path => placeholder(self) = Welcome

\* C12 as amended: the welcome text exactly while FilePath is None, at the
\* start and again after every New; the generic prompt while it is set
C12_Placeholder ==
    /\ placeholder(self) \in {Welcome, Generic}
    /\ placeholder(self) = Welcome <=> file_path = None
    /\ [][/\ placeholder(self)' = Welcome <=> file_path' = None
          /\ Handled("New") => placeholder(self)' = Welcome
          /\ (SavedOk \/ (Handled("FileOpened") /\ last'.msg.result.ok)) =>
                placeholder(self)' = Generic]_vars

\* New has been pressed on a document that had a path: welcome again
C12_Witness ==
    /\ last.by = "user"
    /\ last.msg.type = "New"
    /\ had_path
    /\ file_path = None
    /\ placeholder(self) = Welcome

(***************************************************************************)
(* C13.  The status line shows the front entry of the ErrorQueue when the  *)
(* queue is non-empty; otherwise the current FilePath when it is set, and  *)
(* the 'no file yet' message when FilePath is None.                        *)
(***************************************************************************)
NoFileYet == "No file yet, please save or open file :)"

\* C13 as claimed: a FilePath that is set is shown, whatever the path
C13_AsClaimed ==
    view_bottom_info(self) =
        IF error # << >> THEN error[1]
        ELSE IF file_path # None THEN join(unwrap(file_path))
        ELSE NoFileYet

\* C13 as amended: a FilePath that is not valid UTF-8 is shown as
\* "Can't display path :("
C13_StatusLine ==
    view_bottom_info(self) =
        IF error # << >> THEN error[1]
        ELSE IF file_path = None THEN NoFileYet
        ELSE IF to_str(unwrap(file_path)) # None THEN unwrap(to_str(unwrap(file_path)))
        ELSE "Can't display path :("

\* two different entries are queued and a path is set: the older is shown
C13_Witness ==
    /\ Len(error) = 2
    /\ error[1] # error[2]
    /\ file_path = Some(FileA)
    /\ view_bottom_info(self) = error[1]

\* the queue is empty and /tmp/a.txt is the FilePath: the path is shown
C13_WitnessPath ==
    /\ error = << >>
    /\ file_path = Some(FileA)
    /\ view_bottom_info(self) = "/tmp/a.txt"

(***************************************************************************)
(* C14.  Each Edit applies its action to the Document as it is, so a       *)
(* sequence of Edits with no New or successful load between them applies   *)
(* the actions one by one in delivery order; no other step touches the     *)
(* Document.  An Edit leaves FilePath, SearchRoot and the ErrorQueue       *)
(* unchanged and starts no task and no timer.                              *)
(***************************************************************************)
\* the text-buffer effect of one action on a text with the cursor at k
Edited(text, k, a) ==
    IF a[1] = "Insert"
    THEN [text |-> SubSeq(text, 1, k) \o <<a[2]>> \o SubSeq(text, k + 1, Len(text)),
          cursor |-> k + 1]
    ELSE IF k = 0 THEN [text |-> text, cursor |-> 0]
    ELSE [text |-> SubSeq(text, 1, k - 1) \o SubSeq(text, k + 1, Len(text)),
          cursor |-> k - 1]

C14_Edit ==
    [][/\ Handled("Edit") =>
            /\ content' = Edited(content.text, content.cursor, last'.msg.action)
            /\ file_path' = file_path
            /\ prev_path' = prev_path
            /\ error' = error
            /\ NothingStarted
       /\ content' # content =>
            \/ Handled("Edit")
            \/ Handled("New")
            \/ Handled("FileOpened") /\ last'.msg.result.ok]_vars

\* the loaded text "b" was erased and "a" typed, with a path set and an
\* entry queued
C14_Witness ==
    /\ last.by = "user"
    /\ last.msg = Edit(<<"Insert", "a">>)
    /\ content.text = <<"a">>
    /\ file_path = Some(FileA)
    /\ error # << >>

(***************************************************************************)
(* C15.  Where every expiry timer that was started ends, from some time on *)
(* the ErrorQueue is empty for good: every entry that was pushed has been  *)
(* removed.                                                                *)
(***************************************************************************)
C15_Expires == <>[](error = << >>)

\* MaxOps entries were pushed and the last timer has emptied the queue
C15_Witness ==
    /\ last.by = "timer"
    /\ pushed = MaxOps
    /\ error = << >>
    /\ timers = {}

(***************************************************************************)
(* C16.  Whenever the RemoveError of a timer is processed, the entry it    *)
(* removes is the one pushed by the add_error call that started the timer. *)
(***************************************************************************)
\* the push number of the entry at the front of the queue
FrontId == pushed - Len(error) + 1

C16_OwnEntry ==
    [][last'.by = "timer" =>
            /\ error # << >>
            /\ error' = Tail(error)
            /\ last'.n = FrontId]_vars

(***************************************************************************)
(* C17.  Processing OpenFileDialog or OpenFile, with a path or with none,  *)
(* leaves Document, FilePath, SearchRoot and the ErrorQueue unchanged.     *)
(* OpenFile(None) starts no task and pushes nothing; OpenFile(Some(p))     *)
(* starts exactly one read of p.                                           *)
(***************************************************************************)
StateUnchanged ==
    /\ content' = content
    /\ file_path' = file_path
    /\ prev_path' = prev_path
    /\ error' = error

C17_Open ==
    [][/\ Handled("OpenFileDialog") =>
            /\ StateUnchanged
            /\ pushed' = pushed
            /\ timers' = TimersLeft
       /\ Handled("OpenFile") => StateUnchanged
       /\ (Handled("OpenFile") /\ last'.msg.handle = None) => NothingStarted
       /\ (Handled("OpenFile") /\ last'.msg.handle # None) =>
            OneTaskStarted(Started(Task("read", unwrap(last'.msg.handle),
                                        << >>, None), "OpenFile"))]_vars

\* a second file was chosen while the first one is open: its read is the
\* only task
C17_Witness ==
    /\ last.msg = OpenFile(Some(FileB))
    /\ file_path = Some(FileA)
    /\ BagToSet(tasks) = {Started(load_file(FileB), "OpenFile")}
    /\ BagCardinality(tasks) = 1

\* the open dialog was closed without a file, on a loaded document
C17_WitnessCancel ==
    /\ last.msg = OpenFile(None)
    /\ file_path = Some(FileA)
    /\ tasks = EmptyBag
    /\ error = << >>

(***************************************************************************)
(* C18.  Processing SavedFile(Some(Err(E))) appends exactly "Could not     *)
(* save file: E" to the back of the ErrorQueue with an expiry timer and    *)
(* leaves Document, FilePath and SearchRoot unchanged; in the state it     *)
(* leaves, Edit, New, Open, Save and SaveAs can all be processed.          *)
(***************************************************************************)
SavedErr ==
    /\ last.by = "task"
    /\ last.msg.type = "SavedFile"
    /\ last.msg.data # None
    /\ ~unwrap(last.msg.data).ok

C18_WriteFailed ==
    /\ [][SavedErr' =>
            /\ error' = Append(error, "Could not save file: "
                                        \o unwrap(last'.msg.data).val)
            /\ content' = content
            /\ file_path' = file_path
            /\ prev_path' = prev_path
            /\ OneTimerStarted]_vars
    /\ [](SavedErr =>
            /\ ENABLED UserEdit
            /\ ENABLED PressNew
            /\ ops < MaxOps =>
                    /\ ENABLED PressOpen
                    /\ ENABLED PressSave
                    /\ ENABLED PressSaveAs)

\* the write of a typed document to /tmp/a.txt has failed, a press is left
C18_Witness ==
    /\ SavedErr
    /\ last.task.path = FileA
    /\ error = <<"Could not save file: permission denied">>
    /\ file_path = None
    /\ content.text = <<"a">>
    /\ Cardinality(timers) = 1
    /\ ops < MaxOps

(***************************************************************************)
(* C19.  In every reachable state the length of the ErrorQueue is the      *)
(* number of expiry timers started and not yet delivered; so no            *)
(* RemoveError is processed while the queue is empty.                      *)
(***************************************************************************)
C19_QueueTimers ==
    /\ [](Len(error) = Cardinality(timers))
    /\ [][Handled("RemoveError") => error # << >>]_vars

\* of two timers the second has been delivered: one entry, one timer left
C19_Witness ==
    /\ last.by = "timer"
    /\ last.n = 2
    /\ timers = {1}
    /\ Len(error) = 1

(***************************************************************************)
(* C20.  The text and the path of a save are taken when Save or SaveAs is  *)
(* processed.  Edit, New and load events processed while the save dialog   *)
(* or the write is outstanding leave them as they are; the dialog hands    *)
(* the text on to the write; and a successful write sets FilePath to the   *)
(* written path and leaves the Document, which may differ from the text    *)
(* written, as it is.                                                      *)
(***************************************************************************)
SaveTasks(b) == {t \in BagToSet(b) : t.op \in {"save_dialog", "write"}}

\* the step leaves every outstanding save as it is: the tasks are those
\* left, with at most one task more that is not a save
SavesKept ==
    LET left == TasksLeft IN
    \/ tasks' = left
    \/ \E t \in BagToSet(tasks') :
            /\ t.op \notin {"save_dialog", "write"}
            /\ tasks' = left (+) One(t)

C20_Snapshot ==
    [][/\ (Handled("Save") \/ Handled("SaveAs")) =>
            \E t \in SaveTasks(tasks') :
                /\ tasks' = tasks (+) One(t)
                /\ t.text = content.text
                /\ t.op = "write" => t.path = unwrap(file_path)
                /\ t.op = "save_dialog" => t.path = prev_path
       \* Edit, New, FileOpened and every other message but Save and SaveAs
       /\ (last'.by \in {"user", "task", "timer"}
              /\ last'.msg.type \notin {"Save", "SaveAs"}) => SavesKept
       /\ last'.by = "io" =>
            \E p \in PickPaths :
                tasks' = (tasks (-) One(last'.task))
                            (+) One([last'.task EXCEPT !.op = "write", !.path = p,
                                                       !.name = None])
       /\ (SavedOk /\ last'.by = "task") =>
            /\ last'.task.op = "write"
            /\ file_path' = Some(last'.task.path)
            /\ content' = content]_vars

\* the text written to /tmp/a.txt is not the Document any more: it was
\* edited while the save was outstanding
C20_Witness ==
    /\ last.by = "task"
    /\ last.task.op = "write"
    /\ last.msg = SavedFile(Some(Ok(FileA)))
    /\ last.task.text # content.text
    /\ file_path = Some(FileA)

====
